---- MODULE Spec2Model ----
(***************************************************************************)
(* A model of three parts of kpt: the `fn eval` command, the resolver of   *)
(* Kptfile errors (internal/errors/resolver/pkg.go) and the `pkg diff`     *)
(* command.  Each has a specification of its own: Spec, SpecResolve and    *)
(* SpecDiff.                                                               *)
(*                                                                         *)
(* The `fn eval` command (EvalFnRunner in                      *)
(* thirdparty/cmdconfig/commands/cmdeval/cmdeval.go): preflight (preRunE),  *)
(* the run itself (runE) and saving the evaluated function to the Kptfile   *)
(* (SaveFnToKptfile, NewFunction).                                          *)
(*                                                                         *)
(* Go strings that the code takes apart (--image, --exec, function          *)
(* arguments, names in the Kptfile) are sequences of one-character          *)
(* strings; strings that are only compared (--output, --results-dir,        *)
(* --image-pull-policy, positional arguments) are TLA+ strings.             *)
(***************************************************************************)
EXTENDS Integers, Sequences, FiniteSets, TLC

VARIABLES
    r,        \* the EvalFnRunner: flags, dataItems, FromStdin, RunFns
    cmd,      \* the command line: args and ArgsLenAtDash
    host,     \* facts of the host the handlers only read
    fs,       \* the part of the host filesystem the handlers write
    pc,       \* position of the invocation: start, preRunOK, preRunFailed, done
    err,      \* the error the last handler returned ("" is nil)
    steps,    \* the steps runE has performed, in order
    rs,       \* the error resolver: the error given to Resolve and its result
    df        \* the diff command: its fields, the directories, its position

vars == <<r, cmd, host, fs, pc, err, steps, rs, df>>

\* the value of the variables of a command that is not the one running
Idle == [idle |-> TRUE]

----------------------------------------------------------------------------
(* Bounds of the model *)

\* longest list of function arguments after `--`
MaxArgs == 2
\* longest list of positional arguments before `--`
MaxPos == 2
\* longest pipeline.mutators list of a Kptfile in the initial state
MaxMutators == 2

----------------------------------------------------------------------------
(* Strings *)

\* the empty Go string
Empty == <<>>

\* index of the first occurrence of character c in s at or after i, 0 if none
RECURSIVE IndexFrom(_, _, _)
IndexFrom(s, c, i) ==
    IF i > Len(s) THEN 0
    ELSE IF s[i] = c THEN i
    ELSE IndexFrom(s, c, i + 1)

\* strings.Contains(s, c) for a one-character c
Contains(s, c) == IndexFrom(s, c, 1) # 0

\* index of the last occurrence of character c in s at or before i, 0 if none
RECURSIVE LastIndexFrom(_, _, _)
LastIndexFrom(s, c, i) ==
    IF i < 1 THEN 0
    ELSE IF s[i] = c THEN i
    ELSE LastIndexFrom(s, c, i - 1)

\* a variant of SplitN2 that cuts at the last "="
SplitAtLastEquals(s) ==
    LET i == LastIndexFrom(s, "=", Len(s)) IN
    IF i = 0 THEN <<s>>
    ELSE <<SubSeq(s, 1, i - 1), SubSeq(s, i + 1, Len(s))>>

\* strings.SplitN(s, "=", 2): at most two pieces, cut at the first "="
SplitN2(s) ==
    LET i == IndexFrom(s, "=", 1) IN
    IF i = 0 THEN <<s>>
    ELSE <<SubSeq(s, 1, i - 1), SubSeq(s, i + 1, Len(s))>>

\* all sequences over S of length at most n
SeqsUpTo(S, n) == UNION {[1..k -> S] : k \in 0..n}

\* the nil pointer (a nil *yaml.RNode, a nil *FunctionSpec)
Nil == [nil |-> TRUE]

----------------------------------------------------------------------------
(* shlex.Split (github.com/google/shlex), called by getFunctionSpec *)

\* the tokenizer's rune classes
SpaceRunes == {" ", "\t", "\r", "\n"}
EscapingQuoteRune == "\""
NonEscapingQuoteRune == "'"
EscapeRune == "\\"
CommentRune == "#"

\* The tokenizer run over s from position i: state is the tokenizer's state,
\* cur the value of the token being read, toks the words returned so far.
\* The result is what Split returns: the words, and whether it returns an error.
RECURSIVE Scan(_, _, _, _, _)
Scan(s, i, state, cur, toks) ==
    IF i > Len(s) THEN
        \* end of input
        CASE state = "start" -> [words |-> toks, err |-> FALSE]
          [] state = "inWord" -> [words |-> Append(toks, cur), err |-> FALSE]
          [] state = "comment" -> [words |-> toks, err |-> FALSE]
          [] OTHER -> [words |-> toks, err |-> TRUE]
    ELSE
        LET c == s[i] IN
        CASE state = "start" ->
                IF c \in SpaceRunes THEN Scan(s, i + 1, "start", Empty, toks)
                ELSE IF c = EscapingQuoteRune THEN Scan(s, i + 1, "quotingEscaping", Empty, toks)
                ELSE IF c = NonEscapingQuoteRune THEN Scan(s, i + 1, "quoting", Empty, toks)
                ELSE IF c = EscapeRune THEN Scan(s, i + 1, "escaping", Empty, toks)
                ELSE IF c = CommentRune THEN Scan(s, i + 1, "comment", Empty, toks)
                ELSE Scan(s, i + 1, "inWord", <<c>>, toks)
          [] state = "inWord" ->
                IF c \in SpaceRunes THEN Scan(s, i + 1, "start", Empty, Append(toks, cur))
                ELSE IF c = EscapingQuoteRune THEN Scan(s, i + 1, "quotingEscaping", cur, toks)
                ELSE IF c = NonEscapingQuoteRune THEN Scan(s, i + 1, "quoting", cur, toks)
                ELSE IF c = EscapeRune THEN Scan(s, i + 1, "escaping", cur, toks)
                ELSE Scan(s, i + 1, "inWord", Append(cur, c), toks)
          [] state = "escaping" ->
                Scan(s, i + 1, "inWord", Append(cur, c), toks)
          [] state = "escapingQuoted" ->
                Scan(s, i + 1, "quotingEscaping", Append(cur, c), toks)
          [] state = "quotingEscaping" ->
                IF c = EscapingQuoteRune THEN Scan(s, i + 1, "inWord", cur, toks)
                ELSE IF c = EscapeRune THEN Scan(s, i + 1, "escapingQuoted", cur, toks)
                ELSE Scan(s, i + 1, "quotingEscaping", Append(cur, c), toks)
          [] state = "quoting" ->
                IF c = NonEscapingQuoteRune THEN Scan(s, i + 1, "inWord", cur, toks)
                ELSE Scan(s, i + 1, "quoting", Append(cur, c), toks)
          [] state = "comment" ->
                \* a comment runs to the end of the line and is no word
                IF c = "\n" THEN Scan(s, i + 1, "start", Empty, toks)
                ELSE Scan(s, i + 1, "comment", Empty, toks)

ShlexSplit(s) == Scan(s, 1, "start", Empty, <<>>)

\* s[1:] of a non-empty slice
Tail1(s) == SubSeq(s, 2, Len(s))

----------------------------------------------------------------------------
(* The function config built from the arguments after `--` *)

ConfigMapKind == <<"C", "o", "n", "f", "i", "g", "M", "a", "p">>
FunctionInputName == "function-input"

ErrArgsNoEquals == "args must have keys and values separated by ="

\* yaml.SetField(k, v) on a mapping node: the value of an existing key is
\* replaced in place, a new key is appended
RECURSIVE SetField(_, _, _)
SetField(data, k, v) ==
    IF data = <<>> THEN <<<<k, v>>>>
    ELSE IF Head(data)[1] = k THEN <<<<k, v>>>> \o Tail(data)
    ELSE <<Head(data)>> \o SetField(Tail(data), k, v)

\* the loop of getCLIFunctionConfig from item i on: the kind and the data
\* field so far, or the error of an item without "="
RECURSIVE CLIConfigLoop(_, _, _, _)
CLIConfigLoop(dataItems, i, kind, data) ==
    IF i > Len(dataItems) THEN [kind |-> kind, data |-> data, err |-> ""]
    ELSE
        LET s == dataItems[i]
            kv == SplitN2(s)
        IN  IF i = 1 /\ Len(kv) = 1
            THEN CLIConfigLoop(dataItems, i + 1, s, data)
            ELSE IF Len(kv) # 2
            THEN [kind |-> kind, data |-> data, err |-> ErrArgsNoEquals]
            ELSE CLIConfigLoop(dataItems, i + 1, kind, SetField(data, kv[1], kv[2]))

\* getCLIFunctionConfig: (rc, err) for the runner's Image and Exec
getCLIFunctionConfig(image, exec, dataItems) ==
    IF image = Empty /\ exec = Empty THEN [rc |-> Nil, err |-> ""]
    ELSE
        LET l == CLIConfigLoop(dataItems, 1, ConfigMapKind, <<>>) IN
        IF l.err # "" THEN [rc |-> Nil, err |-> l.err]
        ELSE [rc |-> [apiVersion |-> "v1",
                      kind |-> l.kind,
                      name |-> FunctionInputName,
                      data |-> l.data],
              err |-> ""]

----------------------------------------------------------------------------
(* The function to run *)

\* fnruntime.AddDefaultImagePathPrefix: an image without a registry path
\* gets the default one
DefaultImagePrefix == <<"g", "c", "r", ".", "i", "o", "/", "k", "p", "t", "-", "f", "n", "/">>

AddDefaultImagePathPrefix(image) ==
    IF Contains(image, "/") THEN image ELSE DefaultImagePrefix \o image

\* kptfile.ValidateFunctionImageURL: the image-URL grammar admits no blank
ValidateFunctionImageURL(image) ==
    IF image = Empty \/ Contains(image, " ") THEN "function name is not valid" ELSE ""

ErrContainerOnly == "--mount, --as-current-user, --network and --env can only be used with container functions"
ErrExecInvalid == "exec command must be valid"

\* a variant of getFunctionSpec without the check of the flags that only
\* container functions take
getFunctionSpecWithoutFlagCheck(rr) ==
    IF rr.Image # Empty THEN
        IF ValidateFunctionImageURL(rr.Image) # ""
        THEN [fn |-> Nil, execArgs |-> <<>>, err |-> ValidateFunctionImageURL(rr.Image)]
        ELSE [fn |-> [Image |-> rr.Image, ExecPath |-> Empty], execArgs |-> <<>>, err |-> ""]
    ELSE IF rr.Exec # Empty THEN
        LET s == ShlexSplit(rr.Exec) IN
        IF s.err THEN [fn |-> Nil, execArgs |-> <<>>, err |-> ErrExecInvalid]
        ELSE IF Len(s.words) > 0
        THEN [fn |-> [Image |-> Empty, ExecPath |-> s.words[1]],
              execArgs |-> Tail1(s.words), err |-> ""]
        ELSE [fn |-> [Image |-> Empty, ExecPath |-> Empty], execArgs |-> <<>>, err |-> ""]
    ELSE [fn |-> [Image |-> Empty, ExecPath |-> Empty], execArgs |-> <<>>, err |-> ""]

\* getFunctionSpec: (fn, execArgs, err) for the runner rr
getFunctionSpec(rr) ==
    IF rr.Image # Empty THEN
        IF ValidateFunctionImageURL(rr.Image) # ""
        THEN [fn |-> Nil, execArgs |-> <<>>, err |-> ValidateFunctionImageURL(rr.Image)]
        ELSE [fn |-> [Image |-> rr.Image, ExecPath |-> Empty], execArgs |-> <<>>, err |-> ""]
    ELSE IF rr.Exec # Empty THEN
        IF rr.AsCurrentUser \/ rr.Network \/ Len(rr.Mounts) # 0 \/ Len(rr.Env) # 0
        THEN [fn |-> Nil, execArgs |-> <<>>, err |-> ErrContainerOnly]
        ELSE
            LET s == ShlexSplit(rr.Exec) IN
            IF s.err THEN [fn |-> Nil, execArgs |-> <<>>, err |-> ErrExecInvalid]
            ELSE IF Len(s.words) > 0
            THEN [fn |-> [Image |-> Empty, ExecPath |-> s.words[1]],
                  execArgs |-> Tail1(s.words), err |-> ""]
            ELSE [fn |-> [Image |-> Empty, ExecPath |-> Empty], execArgs |-> <<>>, err |-> ""]
    ELSE [fn |-> [Image |-> Empty, ExecPath |-> Empty], execArgs |-> <<>>, err |-> ""]

\* toStorageMounts: one parsed storage mount per --mount value
toStorageMounts(mounts) == [i \in 1..Len(mounts) |-> [MountSpec |-> mounts[i]]]

----------------------------------------------------------------------------
(* Preflight: preRunE *)

\* cmdutil.Stdout and cmdutil.Unwrap, the two --output values that are no directory
Stdout == "stdout"
Unwrap == "unwrap"

\* the image pull policies of fnruntime
AlwaysPull == "Always"
IfNotPresentPull == "IfNotPresent"
NeverPull == "Never"

\* cmdutil.ValidateImagePullPolicyValue
ValidateImagePullPolicyValue(v) ==
    IF v \in {AlwaysPull, IfNotPresentPull, NeverPull} THEN ""
    ELSE "image pull policy must be one of Always, IfNotPresent and Never"

\* cmdutil.StringToImagePullPolicy
StringToImagePullPolicy(v) ==
    CASE v = AlwaysPull -> AlwaysPull
      [] v = NeverPull -> NeverPull
      [] OTHER -> IfNotPresentPull

\* kptfile.Selector and its IsEmpty
EmptySelector == [APIVersion |-> "", Kind |-> "", Name |-> "", Namespace |-> ""]
SelectorIsEmpty(sel) ==
    sel.APIVersion = "" /\ sel.Kind = "" /\ sel.Name = "" /\ sel.Namespace = ""

\* the zero value of runfn.RunFns: the runner before preRunE configures it
ZeroRunFns ==
    [Function |-> Nil, ExecArgs |-> <<>>, OriginalExec |-> Empty,
     Output |-> "nil", Input |-> "nil", Path |-> "",
     Network |-> FALSE, StorageMounts |-> <<>>, ResultsDir |-> "",
     Env |-> <<>>, AsCurrentUser |-> FALSE, FnConfig |-> Nil,
     FnConfigPath |-> "", IncludeMetaResources |-> FALSE,
     ImagePullPolicy |-> "", ContinueOnEmptyResult |-> FALSE,
     Selector |-> EmptySelector]

ErrDirPresent == "directory already exists"

\* cmdutil.CheckDirectoryNotPresent: an error when the output directory exists
CheckDirectoryNotPresent(f, dest) ==
    IF f.out # "absent" THEN ErrDirPresent ELSE ""

\* argutil.ResolveSymlink: the path with symbolic links resolved, "" with an
\* error when the path cannot be resolved
ResolveSymlink(path) ==
    CASE path = "link" -> "pkg"
      [] path = "gone" -> ""
      [] OTHER -> path

\* the empty bytes.Buffer, and what a function's output holds: the resources
\* and, when it was part of the input, the package's Kptfile
NoKptfile == [absent |-> TRUE]
EmptyBuffer == [text |-> "", kf |-> NoKptfile]
ErrNoFunction == "must specify --image or --exec"
ErrNoDocker == "docker must be running to run this command"
ErrResultsDir == "cannot read or create results dir"
ErrTooManyArgs == "0 or 1 arguments supported, function arguments go after '--'"
ErrArgsAndConfig == "function arguments can only be specified without function config file"
ErrMissingFnConfig == "missing function config file"
ErrSymlink == "cannot resolve path"

\* lines 329-337: the arguments after `--` become dataItems, the ones before
\* it stay args, and no argument means the current directory
SplitArgs(c) ==
    LET atDash == c.ArgsLenAtDash
        dataItems == IF atDash >= 0 THEN SubSeq(c.args, atDash + 1, Len(c.args)) ELSE <<>>
        args == IF atDash >= 0 THEN SubSeq(c.args, 1, atDash) ELSE c.args
    IN  [dataItems |-> dataItems,
         args |-> IF Len(args) = 0 THEN <<".">> ELSE args]

\* a variant of InputOutput that takes "-" for a directory like any other
InputOutputWithoutStdin(args, dest) ==
    [Output |-> IF dest # "" THEN "OutContent" ELSE "nil",
     Input |-> "nil", FromStdin |-> FALSE,
     Path |-> IF Len(args) = 1 THEN args[1] ELSE ""]

\* a variant of InputOutput that leaves the output in place whatever --output
InputOutputInPlace(args, dest) ==
    IF args[1] = "-"
    THEN [Output |-> "OutContent", Input |-> "stdin", FromStdin |-> TRUE, Path |-> ""]
    ELSE [Output |-> "nil", Input |-> "nil", FromStdin |-> FALSE,
          Path |-> IF Len(args) = 1 THEN args[1] ELSE ""]

\* lines 354-374: where output goes, where input comes from, and the path
InputOutput(args, dest) ==
    IF args[1] = "-"
    THEN [Output |-> "OutContent", Input |-> "stdin", FromStdin |-> TRUE, Path |-> ""]
    ELSE [Output |-> IF dest # "" THEN "OutContent" ELSE "nil",
          Input |-> "nil", FromStdin |-> FALSE,
          Path |-> IF Len(args) = 1 THEN args[1] ELSE ""]

\* a variant of MakeRunFns that always includes the meta resources
MakeRunFnsWithMeta(rr, fnSpec, execArgs, io, path, fnConfig) ==
    [Function |-> fnSpec, ExecArgs |-> execArgs, OriginalExec |-> rr.Exec,
     Output |-> io.Output, Input |-> io.Input, Path |-> path,
     Network |-> rr.Network, StorageMounts |-> toStorageMounts(rr.Mounts),
     ResultsDir |-> rr.ResultsDir, Env |-> rr.Env,
     AsCurrentUser |-> rr.AsCurrentUser, FnConfig |-> fnConfig,
     FnConfigPath |-> rr.FnConfigPath,
     IncludeMetaResources |-> TRUE,
     ImagePullPolicy |-> StringToImagePullPolicy(rr.ImagePullPolicy),
     ContinueOnEmptyResult |-> TRUE, Selector |-> rr.Selector]

\* lines 393-414: the RunFns preRunE builds
MakeRunFns(rr, fnSpec, execArgs, io, path, fnConfig) ==
    [Function |-> fnSpec, ExecArgs |-> execArgs, OriginalExec |-> rr.Exec,
     Output |-> io.Output, Input |-> io.Input, Path |-> path,
     Network |-> rr.Network, StorageMounts |-> toStorageMounts(rr.Mounts),
     ResultsDir |-> rr.ResultsDir, Env |-> rr.Env,
     AsCurrentUser |-> rr.AsCurrentUser, FnConfig |-> fnConfig,
     FnConfigPath |-> rr.FnConfigPath,
     IncludeMetaResources |-> rr.IncludeMetaResources,
     ImagePullPolicy |-> StringToImagePullPolicy(rr.ImagePullPolicy),
     ContinueOnEmptyResult |-> TRUE, Selector |-> rr.Selector]

\* a variant of PullPolicyRejected that lets every value pass
PullPolicyNeverRejected(rr) == FALSE

\* lines 320-322: the value of --image-pull-policy does not validate
PullPolicyRejected(rr) == ValidateImagePullPolicyValue(rr.ImagePullPolicy) # ""

\* a variant of ArgsWithConfigFile that never finds the two together
ArgsWithConfigFileOverlooked(dataItems, fnConfigPath) == FALSE

\* line 341: function arguments given together with a function config file
ArgsWithConfigFile(dataItems, fnConfigPath) ==
    Len(dataItems) > 0 /\ fnConfigPath # ""

\* preRunE as a function of the runner, the command line, the host and the
\* filesystem; mkdirOK is whether os.MkdirAll succeeds.  The result is the
\* runner and filesystem it leaves and the error it returns.
preRunEResult(rr, c, h, f, mkdirOK) ==
    LET r3 == IF rr.Image # Empty
              THEN [rr EXCEPT !.Image = AddDefaultImagePathPrefix(rr.Image)]
              ELSE rr
        f5 == IF rr.ResultsDir # "" /\ f.resultsDir = "absent"
              THEN [f EXCEPT !.resultsDir = "created"]
              ELSE f
        sp == SplitArgs(c)
        cfg == getCLIFunctionConfig(r3.Image, r3.Exec, sp.dataItems)
        r9 == [r3 EXCEPT !.dataItems = sp.dataItems]
        fnSpec == getFunctionSpec(r9)
        io == InputOutput(sp.args, rr.Dest)
        r11 == [r9 EXCEPT !.OutContent = EmptyBuffer, !.FromStdin = io.FromStdin \/ r9.FromStdin]
        path == IF io.Path # "" THEN ResolveSymlink(io.Path) ELSE ""
    IN
    IF rr.Dest # "" /\ rr.Dest # Stdout /\ rr.Dest # Unwrap /\ CheckDirectoryNotPresent(f, rr.Dest) # ""
    THEN [r |-> rr, fs |-> f, err |-> ErrDirPresent]
    ELSE IF rr.Image = Empty /\ rr.Exec = Empty
    THEN [r |-> rr, fs |-> f, err |-> ErrNoFunction]
    ELSE IF rr.Image # Empty /\ ~h.docker
    THEN [r |-> r3, fs |-> f, err |-> ErrNoDocker]
    ELSE IF PullPolicyRejected(rr)
    THEN [r |-> r3, fs |-> f, err |-> ValidateImagePullPolicyValue(rr.ImagePullPolicy)]
    ELSE IF rr.ResultsDir # "" /\ ~mkdirOK
    THEN [r |-> r3, fs |-> f, err |-> ErrResultsDir]
    ELSE IF Len(sp.args) > 1
    THEN [r |-> r3, fs |-> f5, err |-> ErrTooManyArgs]
    ELSE IF ArgsWithConfigFile(sp.dataItems, rr.FnConfigPath)
    THEN [r |-> r3, fs |-> f5, err |-> ErrArgsAndConfig]
    ELSE IF cfg.err # ""
    THEN [r |-> r3, fs |-> f5, err |-> cfg.err]
    ELSE IF fnSpec.err # ""
    THEN [r |-> r9, fs |-> f5, err |-> fnSpec.err]
    ELSE IF rr.FnConfigPath # "" /\ ~h.fnConfigExists
    THEN [r |-> r11, fs |-> f5, err |-> ErrMissingFnConfig]
    ELSE IF io.Path # "" /\ path = ""
    THEN [r |-> r11, fs |-> f5, err |-> ErrSymlink]
    ELSE [r |-> [r11 EXCEPT !.RunFns = MakeRunFns(r11, fnSpec.fn, fnSpec.execArgs, io, path, cfg.rc)],
          fs |-> f5, err |-> ""]

preRunE ==
    /\ pc = "start"
    /\ \E mkdirOK \in BOOLEAN :
          LET res == preRunEResult(r, cmd, host, fs, mkdirOK) IN
          /\ r' = res.r
          /\ fs' = res.fs
          /\ err' = res.err
          /\ pc' = IF res.err = "" THEN "preRunOK" ELSE "preRunFailed"
    /\ UNCHANGED <<cmd, host, steps, rs, df>>

----------------------------------------------------------------------------
(* The function saved to the Kptfile: NewFunction and SaveFnToKptfile *)

\* pathutil.ResolveAbsAndRelPaths: the path relative to the working directory
RelativePath(path) ==
    CASE path = "/cwd/fn.yaml" -> "fn.yaml"
      [] OTHER -> path

\* data[k] = v on a Go map, a set of <<key, value>> pairs with distinct keys
MapSet(data, k, v) == {p \in data : p[1] # k} \cup {<<k, v>>}

\* the loop of NewFunction from item i on: the map so far; an item after the
\* first without "=" makes kv[1] an index out of range, a panic
RECURSIVE NewFunctionData(_, _, _)
NewFunctionData(dataItems, i, data) ==
    IF i > Len(dataItems) THEN [data |-> data, panic |-> FALSE]
    ELSE
        LET kv == SplitN2(dataItems[i]) IN
        IF i = 1 /\ Len(kv) = 1 THEN NewFunctionData(dataItems, i + 1, data)
        ELSE IF Len(kv) < 2 THEN [data |-> data, panic |-> TRUE]
        ELSE NewFunctionData(dataItems, i + 1, MapSet(data, kv[1], kv[2]))

\* whether NewFunction panics on the runner's dataItems
NewFunctionPanics(rr) ==
    rr.FnConfigPath = "" /\ NewFunctionData(rr.dataItems, 1, {}).panic

\* NewFunction: the kptfile.Function of the evaluated function.  A nil
\* ConfigMap is the empty map, no ConfigPath the empty string.
NewFunction(rr) ==
    [Name |-> IF rr.Image # Empty THEN rr.Image ELSE rr.Exec,
     Image |-> IF rr.Image # Empty THEN rr.Image ELSE Empty,
     Exec |-> IF rr.Image # Empty THEN Empty ELSE rr.Exec,
     Selectors |-> IF ~SelectorIsEmpty(rr.Selector) THEN <<rr.Selector>> ELSE <<>>,
     ConfigPath |-> IF rr.FnConfigPath # "" THEN RelativePath(rr.FnConfigPath) ELSE "",
     ConfigMap |-> IF rr.FnConfigPath # "" THEN {}
                   ELSE NewFunctionData(rr.dataItems, 1, {}).data]

\* a variant of AlreadyExists that never finds the function
NeverAlreadyExists(mutators, image, exec) == ""

\* whether the loop of SaveFnToKptfile finds the evaluated function among the
\* mutators, and the message it then prints
RECURSIVE AlreadyExists(_, _, _)
AlreadyExists(mutators, image, exec) ==
    IF mutators = <<>> THEN ""
    ELSE
        LET m == Head(mutators) IN
        IF m.Name = image \/ m.Image = image
        THEN "skip adding image: already exists in Kptfile"
        ELSE IF m.Name = exec \/ m.Exec = exec
        THEN "skip adding exec: already exists in Kptfile"
        ELSE AlreadyExists(Tail(mutators), image, exec)

\* a Go slice: nil, or a list
Slice(list) == [list |-> list]

\* SaveFnToKptfile on the Kptfile kf found at r.Dest (NoKptfile when
\* pkg.ReadKptfile fails); writeOK is whether kptfileutil.WriteFile succeeds.
\* The result is the Kptfile the directory holds afterwards and the message.
SaveFnToKptfile(rr, kf, writeOK) ==
    IF kf = NoKptfile
    THEN [kf |-> kf, msg |-> "function not added: Kptfile not exists"]
    ELSE
        LET pipeline == IF kf.Pipeline = Nil
                        THEN [Mutators |-> Nil, Validators |-> <<>>]
                        ELSE kf.Pipeline
            found == IF pipeline.Mutators = Nil THEN ""
                     ELSE AlreadyExists(pipeline.Mutators.list, rr.Image, rr.Exec)
            old == IF pipeline.Mutators = Nil THEN <<>> ELSE pipeline.Mutators.list
            new == [kf EXCEPT !.Pipeline =
                        [pipeline EXCEPT !.Mutators = Slice(Append(old, NewFunction(rr)))]]
        IN  IF found # "" THEN [kf |-> kf, msg |-> found]
            ELSE IF NewFunctionPanics(rr) THEN [kf |-> kf, msg |-> "panic"]
            ELSE IF ~writeOK THEN [kf |-> kf, msg |-> "function is not added to Kptfile"]
            ELSE [kf |-> new, msg |-> "function is added to Kptfile"]

----------------------------------------------------------------------------
(* The run: runE *)

\* the directories of the model that may hold a Kptfile: the working
\* directory, the package directory and the --output directory
Dirs == {".", "pkg", "out"}

\* the directory pkg.ReadKptfile and kptfileutil.WriteFile resolve r.Dest to
DestDir(dest) == IF dest = "" THEN "." ELSE dest

\* the Kptfile a directory holds
KptfileAt(f, dir) == IF dir \in Dirs THEN f.kptfile[dir] ELSE NoKptfile

\* what a mutating function makes of a Kptfile it is given: as set-namespace
\* does, it sets metadata.namespace
Mutated(kf) == IF kf = NoKptfile THEN kf ELSE [kf EXCEPT !.Namespace = "staging"]

\* RunFns.Execute: ok is whether the function succeeds, mutates whether it
\* changes the resources it is given.  The package's Kptfile and function
\* config file are part of the input only with IncludeMetaResources.  A
\* function that fails writes nothing but its results.
Execute(rf, f, ok, mutates) ==
    LET f1 == IF rf.ResultsDir # "" THEN [f EXCEPT !.resultsDir = "results"] ELSE f
        inKf == IF rf.IncludeMetaResources /\ rf.Path # ""
                THEN KptfileAt(f, rf.Path) ELSE NoKptfile
        outKf == IF mutates THEN Mutated(inKf) ELSE inKf
        ns == IF mutates THEN "staging" ELSE ""
    IN  IF ~ok THEN [fs |-> f1, out |-> EmptyBuffer, err |-> "function failed"]
        ELSE IF rf.Output = "nil"
        THEN [fs |-> [f1 EXCEPT !.resources = IF mutates THEN "staging" ELSE @,
                                !.fnConfig = IF mutates /\ rf.IncludeMetaResources
                                             THEN "staging" ELSE @,
                                !.kptfile = IF inKf # NoKptfile
                                            THEN [@ EXCEPT ![rf.Path] = outKf] ELSE @],
              out |-> EmptyBuffer, err |-> ""]
        ELSE [fs |-> f1, out |-> [text |-> "resources", kf |-> outKf], err |-> ""]

\* cmdutil.WriteFnOutput: stdout and unwrap print the content, a directory is
\* created and written, and no --output prints only what was read from stdin
WriteFnOutput(dest, content, fromStdin, f, writeOK) ==
    IF dest = Stdout \/ dest = Unwrap \/ (dest = "" /\ fromStdin)
    THEN [fs |-> f, err |-> IF writeOK THEN "" ELSE "write failed"]
    ELSE IF dest = "" THEN [fs |-> f, err |-> ""]
    ELSE IF ~writeOK THEN [fs |-> f, err |-> "write failed"]
    ELSE [fs |-> [f EXCEPT !.out = "written",
                           !.kptfile = [@ EXCEPT ![dest] = content.kf]],
          err |-> ""]

\* one step of runE, for the record of what it did: the operation and the
\* error it returned; for SaveFnToKptfile also the Kptfile it read and
\* whether the file could be written
Step(op, e) == [op |-> op, err |-> e, read |-> NoKptfile, writable |-> FALSE]
SaveStep(read, writable) ==
    [op |-> "SaveFnToKptfile", err |-> "", read |-> read, writable |-> writable]

\* a variant of ExecuteFailed that overlooks the error of the function
ExecuteErrorIgnored(e) == FALSE

\* lines 118-120: runE returns the error of RunFns.Execute
ExecuteFailed(e) == e # ""

\* a variant of SaveRequested that saves whatever --save
SaveAlways(rr) == TRUE

\* lines 125-127: the function is saved only with --save
SaveRequested(rr) == rr.SaveFn

\* runE as a function of the runner and the filesystem; the booleans are the
\* outcomes of the function, of writing the output and of writing the Kptfile
runEResult(rr, f, ok, mutates, writeOK, kfWriteOK) ==
    LET ex == Execute(rr.RunFns, f, ok, mutates)
        content == IF rr.RunFns.Output = "OutContent" THEN ex.out ELSE rr.OutContent
        r1 == [rr EXCEPT !.OutContent = content]
        w == WriteFnOutput(rr.Dest, content, rr.FromStdin, ex.fs, writeOK)
        dir == DestDir(rr.Dest)
        read == KptfileAt(w.fs, dir)
        sv == SaveFnToKptfile(rr, read, kfWriteOK)
    IN  IF ExecuteFailed(ex.err)
        THEN [r |-> r1, fs |-> ex.fs, err |-> ex.err,
              steps |-> <<Step("Execute", ex.err)>>]
        ELSE IF w.err # ""
        THEN [r |-> r1, fs |-> w.fs, err |-> w.err,
              steps |-> <<Step("Execute", ex.err), Step("WriteFnOutput", w.err)>>]
        ELSE IF SaveRequested(rr)
        THEN [r |-> r1,
              fs |-> IF dir \in Dirs
                     THEN [w.fs EXCEPT !.kptfile = [@ EXCEPT ![dir] = sv.kf]]
                     ELSE w.fs,
              err |-> "",
              steps |-> <<Step("Execute", ex.err), Step("WriteFnOutput", ""),
                          SaveStep(read, kfWriteOK)>>]
        ELSE [r |-> r1, fs |-> w.fs, err |-> "",
              steps |-> <<Step("Execute", ex.err), Step("WriteFnOutput", "")>>]

\* cobra runs RunE only after PreRunE returned nil
runE ==
    /\ pc = "preRunOK"
    /\ \E ok \in BOOLEAN, mutates \in BOOLEAN, writeOK \in BOOLEAN, kfWriteOK \in BOOLEAN :
          LET res == runEResult(r, fs, ok, mutates, writeOK, kfWriteOK) IN
          /\ r' = res.r
          /\ fs' = res.fs
          /\ err' = res.err
          /\ steps' = res.steps
    /\ pc' = "done"
    /\ UNCHANGED <<cmd, host, rs, df>>

----------------------------------------------------------------------------
(* The invocations of the model *)

\* GetEvalFnRunner: the runner with every flag at its default
BaseRunner ==
    [Dest |-> "", OutContent |-> EmptyBuffer, FromStdin |-> FALSE,
     Image |-> Empty, SaveFn |-> FALSE, Exec |-> Empty, FnConfigPath |-> "",
     RunFns |-> ZeroRunFns, ResultsDir |-> "",
     ImagePullPolicy |-> IfNotPresentPull, Network |-> FALSE,
     Mounts |-> <<>>, Env |-> <<>>, AsCurrentUser |-> FALSE,
     IncludeMetaResources |-> FALSE, Selector |-> EmptySelector,
     dataItems |-> <<>>]

\* --image values: none, "set", "gcr.io/kpt-fn/set", "x/f", "a b"
ImgShort == <<"s", "e", "t">>
ImgFull == DefaultImagePrefix \o ImgShort
ImgOther == <<"x", "/", "f">>
ImgBad == <<"a", " ", "b">>
Images == {Empty, ImgShort, ImgFull, ImgOther, ImgBad}

\* --exec values: none, "f", "f -x", "f 'a b'", " ", "'f", "''"
ExecF == <<"f">>
ExecFx == <<"f", " ", "-", "x">>
ExecQuoted == <<"f", " ", "'", "a", " ", "b", "'">>
ExecBlank == <<" ">>
ExecOpenQuote == <<"'", "f">>
ExecEmptyQuotes == <<"'", "'">>
Execs == {Empty, ExecF, ExecFx, ExecQuoted, ExecBlank, ExecOpenQuote, ExecEmptyQuotes}

\* --image-pull-policy values
PullPolicies == {AlwaysPull, IfNotPresentPull, NeverPull, "Sometimes"}

\* function arguments: "K", "a=1", "a=2", "b=x=y"
ArgK == <<"K">>
ArgA1 == <<"a", "=", "1">>
ArgA2 == <<"a", "=", "2">>
ArgBxy == <<"b", "=", "x", "=", "y">>
ArgItems == {ArgK, ArgA1, ArgA2, ArgBxy}

\* positional arguments: stdin, a directory, a symbolic link to it, a path
\* that does not exist
PosItems == {"-", "pkg", "link", "gone"}

\* the command line `pre -- post` (without `--` when dash is false)
Cmd(pre, post, dash) ==
    [args |-> pre \o post, ArgsLenAtDash |-> IF dash THEN Len(pre) ELSE -1]

\* functions declared in a Kptfile of the initial state
Kfn(name, image, exec) ==
    [Name |-> name, Image |-> image, Exec |-> exec, Selectors |-> <<>>,
     ConfigPath |-> "", ConfigMap |-> {}]
KFns == {Kfn(Empty, ImgFull, Empty), Kfn(Empty, Empty, ExecFx),
         Kfn(<<"n">>, ImgOther, Empty), Kfn(<<"m">>, Empty, ExecF)}

Kptfile(pipeline) == [Namespace |-> "", Pipeline |-> pipeline]
Kptfiles ==
    {NoKptfile, Kptfile(Nil),
     Kptfile([Mutators |-> Nil, Validators |-> <<Kfn(Empty, ImgFull, Empty)>>])}
    \cup {Kptfile([Mutators |-> Slice(ms), Validators |-> <<>>]) :
            ms \in SeqsUpTo(KFns, MaxMutators)}

\* the filesystem before the invocation, with the Kptfile kf in the working
\* directory
BaseFs(kf, out) ==
    [resultsDir |-> "absent", resources |-> "", fnConfig |-> "", out |-> out,
     kptfile |-> [d \in Dirs |-> CASE d = "." -> kf
                                   [] d = "pkg" -> Kptfile(Nil)
                                   [] OTHER -> NoKptfile]]

Host(docker, fnConfigExists, f) ==
    [docker |-> docker, fnConfigExists |-> fnConfigExists, fs0 |-> f]

\* invocations that vary the flags of the function to run
InitFlags ==
    \E image \in Images, exec \in Execs, network \in BOOLEAN, asUser \in BOOLEAN,
       mounts \in {<<>>, <<"type=bind">>}, env \in {<<>>, <<"E=1">>},
       policy \in PullPolicies, docker \in BOOLEAN, results \in {"", "results"} :
        /\ r = [BaseRunner EXCEPT !.Image = image, !.Exec = exec,
                                  !.Network = network, !.AsCurrentUser = asUser,
                                  !.Mounts = mounts, !.Env = env,
                                  !.ImagePullPolicy = policy, !.ResultsDir = results]
        /\ cmd = Cmd(<<>>, <<>>, FALSE)
        /\ fs = BaseFs(Kptfile(Nil), "absent")
        /\ host = Host(docker, TRUE, fs)

\* invocations that vary the function arguments after `--`
InitArgs ==
    \E fn \in {<<ImgShort, Empty>>, <<Empty, ExecFx>>},
       post \in SeqsUpTo(ArgItems, MaxArgs), dash \in BOOLEAN,
       pre \in {<<>>, <<"-">>}, config \in {"", "fn.yaml"},
       exists \in BOOLEAN, save \in BOOLEAN :
        /\ dash \/ post = <<>>
        /\ r = [BaseRunner EXCEPT !.Image = fn[1], !.Exec = fn[2],
                                  !.FnConfigPath = config, !.SaveFn = save]
        /\ cmd = Cmd(pre, post, dash)
        /\ fs = BaseFs(Kptfile(Nil), "absent")
        /\ host = Host(TRUE, exists, fs)

\* invocations that vary the positional arguments and where output goes
InitPos ==
    \E fn \in {<<ImgShort, Empty>>, <<Empty, ExecFx>>, <<Empty, Empty>>},
       pre \in SeqsUpTo(PosItems, MaxPos), post \in {<<>>, <<ArgA1>>},
       dest \in {"", Stdout, Unwrap, "out"}, out \in {"absent", "present"},
       results \in {"", "results"}, meta \in BOOLEAN :
        /\ r = [BaseRunner EXCEPT !.Image = fn[1], !.Exec = fn[2],
                                  !.Dest = dest, !.ResultsDir = results,
                                  !.IncludeMetaResources = meta]
        /\ cmd = Cmd(pre, post, post # <<>>)
        /\ fs = BaseFs(Kptfile(Nil), out)
        /\ host = Host(TRUE, TRUE, fs)

\* invocations that save the evaluated function to a Kptfile
InitSave ==
    \E image \in {Empty, ImgShort, ImgOther}, exec \in {Empty, ExecF, ExecFx},
       kf \in Kptfiles, post \in {<<>>, <<ArgK, ArgA1>>, <<ArgA1, ArgA2>>},
       config \in {"", "/cwd/fn.yaml"}, kind \in {"", "Deployment"},
       dest \in {"", "out"}, meta \in BOOLEAN :
        /\ r = [BaseRunner EXCEPT !.Image = image, !.Exec = exec,
                                  !.FnConfigPath = config, !.SaveFn = TRUE,
                                  !.Selector = [EmptySelector EXCEPT !.Kind = kind],
                                  !.Dest = dest, !.IncludeMetaResources = meta]
        /\ cmd = Cmd(<<>>, post, post # <<>>)
        /\ fs = BaseFs(kf, "absent")
        /\ host = Host(TRUE, TRUE, fs)

Init ==
    /\ InitFlags \/ InitArgs \/ InitPos \/ InitSave
    /\ pc = "start"
    /\ err = ""
    /\ steps = <<>>
    /\ rs = Idle
    /\ df = Idle

Next == preRunE \/ runE

Spec == Init /\ [][Next]_vars

----------------------------------------------------------------------------
(* Properties *)

\* preRunE has returned
PreRunReturned == pc # "start"
\* preRunE has returned nil
Accepted == pc \in {"preRunOK", "done"}
\* preRunE has left RunFns as it found it
Unconfigured == r.RunFns = ZeroRunFns

\* the arguments before and after `--` on the command line
PreArgs ==
    IF cmd.ArgsLenAtDash >= 0 THEN SubSeq(cmd.args, 1, cmd.ArgsLenAtDash) ELSE cmd.args
PostArgs ==
    IF cmd.ArgsLenAtDash >= 0
    THEN SubSeq(cmd.args, cmd.ArgsLenAtDash + 1, Len(cmd.args)) ELSE <<>>

\* C1: preRunE accepts an invocation only when exactly one of --image and
\* --exec is set; with neither or with both it returns an error and leaves
\* RunFns unconfigured.
C1_ExactlyOneOfImageAndExec ==
    (PreRunReturned /\ ((r.Image = Empty) = (r.Exec = Empty)))
        => (pc = "preRunFailed" /\ err # "" /\ Unconfigured)

\* runE has run the function and RunFns.Execute returned nil
ExecuteSucceeded ==
    \E i \in DOMAIN steps : steps[i].op = "Execute" /\ steps[i].err = ""

\* C2 as claimed: until RunFns.Execute has succeeded the filesystem is
\* exactly as it was before the invocation.
C2_NoMutationBeforeSuccess ==
    ~ExecuteSucceeded => fs = host.fs0

\* C2 as amended: until RunFns.Execute has succeeded nothing but the results
\* directory is created or changed: the package's resources, its function
\* config file, the Kptfiles and the --output directory are as they were.
C2_OnlyResultsDirBeforeSuccess ==
    ~ExecuteSucceeded =>
        /\ fs.resources = host.fs0.resources
        /\ fs.fnConfig = host.fs0.fnConfig
        /\ fs.out = host.fs0.out
        /\ fs.kptfile = host.fs0.kptfile

\* C2's case: the function failed in an invocation with --output DIR that
\* would have written its output in place or to a directory
C2_Witness ==
    /\ pc = "done"
    /\ ~ExecuteSucceeded
    /\ r.Dest = "out"
    /\ r.ResultsDir # ""
    /\ fs.resultsDir = "results"
    /\ fs.out = "absent"

\* the function to run is an exec function
ExecFunction == r.Exec # Empty /\ r.Image = Empty
\* one of the flags that only container functions take is given
ContainerFlags ==
    r.Network \/ r.AsCurrentUser \/ Len(r.Mounts) # 0 \/ Len(r.Env) # 0

\* C3: for an exec function preRunE returns an error and leaves RunFns
\* unconfigured when --network, --mount, --env or --as-current-user is
\* given; without them it never returns the error of that check.
C3_ExecRejectsContainerFlags ==
    (PreRunReturned /\ ExecFunction) =>
        IF ContainerFlags
        THEN pc = "preRunFailed" /\ err # "" /\ Unconfigured
        ELSE pc = "preRunFailed" => err # ErrContainerOnly

\* C3's case: an exec function with one of the flags, all earlier checks
\* passed
C3_Witness ==
    /\ pc = "preRunFailed"
    /\ ExecFunction
    /\ ContainerFlags
    /\ err = ErrContainerOnly

\* the mutators of a Kptfile
MutatorsOf(kf) ==
    IF kf = NoKptfile \/ kf.Pipeline = Nil THEN <<>>
    ELSE IF kf.Pipeline.Mutators = Nil THEN <<>>
    ELSE kf.Pipeline.Mutators.list

\* the mutators hold no entry for the evaluated function
NoEntryFor(ms, rr) ==
    IF rr.Image # Empty
    THEN \A i \in DOMAIN ms : ms[i].Name # rr.Image /\ ms[i].Image # rr.Image
    ELSE \A i \in DOMAIN ms : ms[i].Name # rr.Exec /\ ms[i].Exec # rr.Exec

\* f is the evaluated function
IsEvaluated(f, rr) ==
    IF rr.Image # Empty THEN f.Image = rr.Image /\ f.Exec = Empty
    ELSE f.Exec = rr.Exec /\ f.Image = Empty

\* C4: when SaveFnToKptfile found a readable, writable Kptfile whose
\* mutators hold no entry for the evaluated function, the mutators are
\* afterwards the previous list with the evaluated function appended
\* (stated for invocations with exactly one of --image and --exec).
C4_SaveAppendsFunction ==
    \A i \in DOMAIN steps :
        (/\ steps[i].op = "SaveFnToKptfile"
         /\ (r.Image = Empty) # (r.Exec = Empty)
         /\ steps[i].read # NoKptfile
         /\ steps[i].writable
         /\ NoEntryFor(MutatorsOf(steps[i].read), r))
        => LET after == MutatorsOf(KptfileAt(fs, DestDir(r.Dest)))
               before == MutatorsOf(steps[i].read)
           IN  /\ Len(after) = Len(before) + 1
               /\ SubSeq(after, 1, Len(before)) = before
               /\ IsEvaluated(after[Len(after)], r)

\* C5: with neither --fn-config nor function arguments, the FnConfig that
\* preRunE hands to RunFns is nil.
C5_NoConfigIsNil ==
    (Accepted /\ r.FnConfigPath = "" /\ PostArgs = <<>>)
        => r.RunFns.FnConfig = Nil

\* argument s has key k: s is k, "=" and a value, and k holds no "="
HasKey(s, k) ==
    /\ ~Contains(k, "=")
    /\ Len(s) > Len(k)
    /\ SubSeq(s, 1, Len(k) + 1) = k \o <<"=">>

\* the function arguments that are key=value entries
KeyedArgs == {i \in DOMAIN PostArgs : Contains(PostArgs[i], "=")}
\* every function argument except possibly the first contains "="
WellFormedArgs == \A i \in DOMAIN PostArgs : i > 1 => Contains(PostArgs[i], "=")

\* C6: for well-formed function arguments the function config is a resource
\* with apiVersion v1, metadata.name function-input, the first argument as
\* kind when it holds no "=" and ConfigMap otherwise, and in data exactly one
\* entry per distinct key, from the text before the first "=" to all the text
\* after it, the last occurrence of a key winning.
C6_ConfigMapFromArgs ==
    (Accepted /\ WellFormedArgs) =>
        LET cfg == r.RunFns.FnConfig IN
        /\ cfg # Nil
        /\ cfg.apiVersion = "v1"
        /\ cfg.name = "function-input"
        /\ cfg.kind = IF PostArgs # <<>> /\ ~Contains(PostArgs[1], "=")
                      THEN PostArgs[1] ELSE ConfigMapKind
        /\ \A i \in KeyedArgs : \E j \in DOMAIN cfg.data : HasKey(PostArgs[i], cfg.data[j][1])
        /\ \A j \in DOMAIN cfg.data :
              \E i \in KeyedArgs :
                  /\ PostArgs[i] = cfg.data[j][1] \o <<"=">> \o cfg.data[j][2]
                  /\ ~Contains(cfg.data[j][1], "=")
                  /\ \A i2 \in KeyedArgs : i2 > i => ~HasKey(PostArgs[i2], cfg.data[j][1])
        /\ \A j1, j2 \in DOMAIN cfg.data :
              cfg.data[j1][1] = cfg.data[j2][1] => j1 = j2

\* C6's case: a kind, and a value that itself holds "="
C6_Witness ==
    /\ Accepted
    /\ PostArgs = <<ArgK, ArgBxy>>
    /\ r.RunFns.FnConfig.kind = ArgK
    /\ r.RunFns.FnConfig.data = <<<<<<"b">>, <<"x", "=", "y">>>>>>

\* the functions declared in the Kptfiles of the filesystem
DeclaredFunctions ==
    UNION {{MutatorsOf(fs.kptfile[d])[i] : i \in DOMAIN MutatorsOf(fs.kptfile[d])} : d \in Dirs}

\* C7: preRunE rejects an invocation with both --fn-config and function
\* arguments, and no Function that NewFunction returns, for the runner or in
\* a Kptfile, has both ConfigPath and ConfigMap set.
C7_ConfigPathOrConfigMap ==
    /\ (PreRunReturned /\ r.FnConfigPath # "" /\ Len(PostArgs) > 0)
           => (pc = "preRunFailed" /\ err # "")
    /\ (r.FnConfigPath # "" /\ r.dataItems # <<>>) => ~Accepted
    /\ ~(NewFunction(r).ConfigPath # "" /\ NewFunction(r).ConfigMap # {})
    /\ \A f \in DeclaredFunctions : ~(f.ConfigPath # "" /\ f.ConfigMap # {})

\* C7's case: both given, and every earlier check passed
C7_Witness ==
    /\ pc = "preRunFailed"
    /\ r.FnConfigPath # ""
    /\ Len(PostArgs) > 0
    /\ err = ErrArgsAndConfig

\* C8: for an --exec command line that preRunE accepts, Exec.Path is the
\* non-empty first token and ExecArgs are the remaining tokens in order; a
\* command line that cannot be split yields an error.
C8_ExecHeadAndTail ==
    /\ (Accepted /\ ExecFunction) =>
           /\ r.RunFns.Function.ExecPath # Empty
           /\ <<r.RunFns.Function.ExecPath>> \o r.RunFns.ExecArgs = ShlexSplit(r.Exec).words
    /\ (PreRunReturned /\ ExecFunction /\ ShlexSplit(r.Exec).err)
           => (pc = "preRunFailed" /\ err # "")

\* a Kptfile of the filesystem, the function config file or the function's
\* output carries what a function made of the package's meta resources
MetaResourcesChanged ==
    \/ \E d \in Dirs : fs.kptfile[d] # NoKptfile /\ fs.kptfile[d].Namespace = "staging"
    \/ fs.fnConfig = "staging"
    \/ r.OutContent.kf # NoKptfile

\* C9: --include-meta-resources defaults to false, RunFns gets
\* IncludeMetaResources exactly as the flag was given, and only with the flag
\* does a function see or change the Kptfile and the function config file.
C9_MetaResourcesOnlyWithFlag ==
    /\ ~BaseRunner.IncludeMetaResources
    /\ Accepted => r.RunFns.IncludeMetaResources = r.IncludeMetaResources
    /\ MetaResourcesChanged => r.IncludeMetaResources

\* C9's case: with the flag, a function changed the Kptfile and the function
\* config file in place
C9_Witness ==
    /\ pc = "done"
    /\ r.IncludeMetaResources
    /\ fs.kptfile["."] # NoKptfile
    /\ fs.kptfile["."].Namespace = "staging"
    /\ fs.fnConfig = "staging"

\* two paths name the same directory
SameDirectory(p, q) == ResolveSymlink(p) = ResolveSymlink(q)

\* C10: without a positional argument the path is "."; with one that is not
\* "-" the path is that directory and no input reader is set; with "-" the
\* input is stdin, FromStdin is true, the path is empty and output goes to
\* the buffer; with more than one preRunE returns an error.
C10_PositionalArguments ==
    /\ (Accepted /\ Len(PreArgs) = 0) =>
           /\ r.RunFns.Path = "."
           /\ r.RunFns.Input = "nil"
           /\ ~r.FromStdin
    /\ (Accepted /\ Len(PreArgs) = 1 /\ PreArgs[1] # "-") =>
           /\ r.RunFns.Path # ""
           /\ SameDirectory(r.RunFns.Path, PreArgs[1])
           /\ r.RunFns.Input = "nil"
           /\ ~r.FromStdin
    /\ (Accepted /\ PreArgs = <<"-">>) =>
           /\ r.RunFns.Input = "stdin"
           /\ r.FromStdin
           /\ r.RunFns.Path = ""
           /\ r.RunFns.Output = "OutContent"
    /\ (PreRunReturned /\ Len(PreArgs) > 1) => (pc = "preRunFailed" /\ err # "")

\* C10's case: resources read from stdin
C10_Witness ==
    /\ pc = "preRunOK"
    /\ PreArgs = <<"-">>
    /\ r.FromStdin
    /\ r.RunFns.Input = "stdin"

\* C11: the image pull policy handed to RunFns is one of Always,
\* IfNotPresent and Never: the flag defaults to IfNotPresent, and for every
\* other value of --image-pull-policy preRunE returns an error and leaves
\* RunFns unconfigured.
C11_PullPolicyOneOfThree ==
    /\ BaseRunner.ImagePullPolicy = IfNotPresentPull
    /\ Accepted => r.RunFns.ImagePullPolicy \in {AlwaysPull, IfNotPresentPull, NeverPull}
    /\ (PreRunReturned /\ r.ImagePullPolicy \notin {AlwaysPull, IfNotPresentPull, NeverPull})
           => (pc = "preRunFailed" /\ err # "" /\ Unconfigured)

\* C11's case: a value that is no pull policy, rejected by the check of it
C11_Witness ==
    /\ pc = "preRunFailed"
    /\ r.ImagePullPolicy = "Sometimes"
    /\ err = ValidateImagePullPolicyValue("Sometimes")
    /\ Unconfigured

\* --output names a directory
OutputIsDirectory == r.Dest \notin {"", Stdout, Unwrap}

\* C13: when --output names a directory that is already present, preRunE
\* fails on that before any other check and before it changes anything; for
\* stdout, unwrap or a directory the output of the function is captured in
\* OutContent and the package is not written in place.
C13_OutputDirectoryChecked ==
    /\ (PreRunReturned /\ OutputIsDirectory /\ host.fs0.out # "absent") =>
           /\ pc = "preRunFailed"
           /\ err = ErrDirPresent
           /\ Unconfigured
           /\ fs = host.fs0
    /\ (PreRunReturned /\ ~(OutputIsDirectory /\ host.fs0.out # "absent")) =>
           err # ErrDirPresent
    /\ (Accepted /\ r.Dest # "") =>
           /\ r.RunFns.Output = "OutContent"
           /\ fs.resources = host.fs0.resources
           /\ \A d \in Dirs \ {r.Dest} : fs.kptfile[d] = host.fs0.kptfile[d]

\* C13's case: the output directory is present, and so much else is wrong
\* with the invocation that a later check would fail too
C13_Witness ==
    /\ pc = "preRunFailed"
    /\ err = ErrDirPresent
    /\ r.Dest = "out"
    /\ r.ResultsDir # ""
    /\ r.Image = Empty /\ r.Exec = Empty
    /\ Len(PreArgs) > 1

\* the operations of runE in the order of its code
RunESteps == <<"Execute", "WriteFnOutput", "SaveFnToKptfile">>

\* the pipelines of the Kptfiles that were there before the invocation are
\* as they were
PipelinesUntouched ==
    \A d \in Dirs :
        host.fs0.kptfile[d] # NoKptfile =>
            /\ fs.kptfile[d] # NoKptfile
            /\ fs.kptfile[d].Pipeline = host.fs0.kptfile[d].Pipeline

\* C14: runE performs Execute, WriteFnOutput and SaveFnToKptfile in this
\* order, each only if the one before succeeded: an error of Execute leaves
\* the output unwritten and the Kptfile untouched, an error of WriteFnOutput
\* leaves the Kptfile untouched, the Kptfile is touched only with --save, and
\* a failure inside SaveFnToKptfile gives no error.
C14_RunEStepsInOrder ==
    pc = "done" =>
        /\ Len(steps) \in 1..3
        /\ \A i \in DOMAIN steps : steps[i].op = RunESteps[i]
        /\ \A i \in DOMAIN steps : i < Len(steps) => steps[i].err = ""
        /\ err = steps[Len(steps)].err
        /\ (steps[1].err # "") =>
               /\ Len(steps) = 1
               /\ fs.out = host.fs0.out
               /\ fs.kptfile = host.fs0.kptfile
        /\ (Len(steps) = 2 /\ steps[2].err # "") => PipelinesUntouched
        /\ (Len(steps) = 3) <=> (r.SaveFn /\ steps[1].err = "" /\ steps[2].err = "")
        /\ ~r.SaveFn => PipelinesUntouched
        /\ (Len(steps) = 3) => err = ""

\* C14's case: all three steps were performed, the Kptfile could not be
\* written, and runE returned nil
C14_Witness ==
    /\ pc = "done"
    /\ Len(steps) = 3
    /\ steps[3].op = "SaveFnToKptfile"
    /\ steps[3].read # NoKptfile
    /\ ~steps[3].writable
    /\ PipelinesUntouched
    /\ err = ""

\* the function config that a function declared in a Kptfile with a
\* configMap runs with: a ConfigMap with the map as data (a function without
\* one counts here as one with an empty map)
ConfigOfDeclared(f) == [kind |-> ConfigMapKind, data |-> f.ConfigMap]

\* the entries of a data field
Entries(data) == {data[i] : i \in DOMAIN data}

\* C15: for every argument list that preRunE accepts without --fn-config,
\* NewFunction does not fail and the function config rebuilt from the
\* Function it returns equals the function config the evaluated run got, in
\* kind and in data entries.
C15_SavedConfigEqualsEvaluated ==
    (Accepted /\ r.FnConfigPath = "") =>
        /\ ~NewFunctionPanics(r)
        /\ ConfigOfDeclared(NewFunction(r)).data = Entries(r.RunFns.FnConfig.data)
        /\ ConfigOfDeclared(NewFunction(r)).kind = r.RunFns.FnConfig.kind

----------------------------------------------------------------------------
(* The resolver of Kptfile errors: pkgErrorResolver.Resolve *)

\* longest chain of wrapped errors given to Resolve
MaxChain == 3

\* An error is the chain of errors that Unwrap walks, outermost first; the
\* nil error is the empty chain.  Each error has its type and what it
\* carries: a KptfileError its Path, a RemoteKptfileError its RepoRef, a
\* DeprecatedKptfileError its Version, an UnknownKptfileResourceError its
\* GVK, a ValidateError its text.
ErrorNode(kind, info) == [kind |-> kind, info |-> info]

\* errors that wrap another error (or nothing)
WrapperErrors ==
    {ErrorNode("Error", ""), ErrorNode("RemoteKptfileError", "repo@main"),
     ErrorNode("KptfileError", "pkg"), ErrorNode("KptfileError", "pkg/sub")}
\* errors that wrap nothing
LeafErrors ==
    {ErrorNode("ErrNotExist", ""), ErrorNode("DeprecatedKptfileError", "v1alpha1"),
     ErrorNode("UnknownKptfileResourceError", "kpt.dev/v9, Kind=Kptfile"),
     ErrorNode("ValidateError", "invalid field")}
\* the errors of the model: wrappers around at most one leaf
ErrorChains ==
    {w \o l : w \in SeqsUpTo(WrapperErrors, MaxChain),
              l \in {<<>>} \cup {<<x>> : x \in LeafErrors}}
    \cap SeqsUpTo(WrapperErrors \cup LeafErrors, MaxChain)

\* errors.As: the position of the first error of the type in the chain, 0
\* when there is none
RECURSIVE AsFrom(_, _, _)
AsFrom(e, kind, i) ==
    IF i > Len(e) THEN 0
    ELSE IF e[i].kind = kind THEN i
    ELSE AsFrom(e, kind, i + 1)
As(e, kind) == AsFrom(e, kind, 1)

\* the error found at position i, with all it wraps
ErrorAt(e, i) == SubSeq(e, i, Len(e))

\* errors.Is(err, os.ErrNotExist)
IsNotExist(e) == As(e, "ErrNotExist") > 0

\* the message templates (lines 30-49): their text and the arguments they use
noKptfileMsg == [text |-> "No Kptfile found", fields |-> {"path"}]
deprecatedKptfileMsg == [text |-> "old version of the Kptfile schema", fields |-> {"path", "version"}]
unknownKptfileResourceMsg == [text |-> "unknown resource type", fields |-> {"path", "gvk"}]
kptfileReadErrMsg == [text |-> "can't be read", fields |-> {"path", "err"}]

\* ExecuteTemplate: the text with the values of the arguments it uses
ExecuteTemplate(tmpl, tmplArgs) ==
    [text |-> tmpl.text,
     values |-> [k \in tmpl.fields \cap DOMAIN tmplArgs |-> tmplArgs[k]]]

\* ResolvedResult{}
EmptyResult == [Message |-> [text |-> "", values |-> <<>>]]

\* a variant of resolveNestedErr that does not know the unknown resource type
resolveNestedErrWithoutUnknown(e, tmplArgs) ==
    IF IsNotExist(e)
    THEN [result |-> [Message |-> ExecuteTemplate(noKptfileMsg, tmplArgs)], ok |-> TRUE]
    ELSE IF As(e, "DeprecatedKptfileError") > 0
    THEN [result |-> [Message |-> ExecuteTemplate(deprecatedKptfileMsg,
                         ("version" :> e[As(e, "DeprecatedKptfileError")].info) @@ tmplArgs)],
          ok |-> TRUE]
    ELSE [result |-> [Message |-> ExecuteTemplate(kptfileReadErrMsg, tmplArgs)], ok |-> TRUE]

\* resolveNestedErr (lines 87-113)
resolveNestedErr(e, tmplArgs) ==
    IF IsNotExist(e)
    THEN [result |-> [Message |-> ExecuteTemplate(noKptfileMsg, tmplArgs)], ok |-> TRUE]
    ELSE IF As(e, "DeprecatedKptfileError") > 0
    THEN [result |-> [Message |-> ExecuteTemplate(deprecatedKptfileMsg,
                         ("version" :> e[As(e, "DeprecatedKptfileError")].info) @@ tmplArgs)],
          ok |-> TRUE]
    ELSE IF As(e, "UnknownKptfileResourceError") > 0
    THEN [result |-> [Message |-> ExecuteTemplate(unknownKptfileResourceMsg,
                         ("gvk" :> e[As(e, "UnknownKptfileResourceError")].info) @@ tmplArgs)],
          ok |-> TRUE]
    ELSE [result |-> [Message |-> ExecuteTemplate(kptfileReadErrMsg, tmplArgs)], ok |-> TRUE]

\* pkgErrorResolver.Resolve (lines 55-85); in the branch of the
\* RemoteKptfileError the argument "err" is the nil kptfileError of line 56
Resolve(e) ==
    IF As(e, "KptfileError") > 0
    THEN LET kptfileError == ErrorAt(e, As(e, "KptfileError")) IN
         resolveNestedErr(kptfileError,
             ("path" :> kptfileError[1].info) @@ ("err" :> kptfileError))
    ELSE IF As(e, "RemoteKptfileError") > 0
    THEN LET remoteKptfileError == ErrorAt(e, As(e, "RemoteKptfileError")) IN
         resolveNestedErr(remoteKptfileError,
             ("path" :> remoteKptfileError[1].info) @@ ("err" :> <<>>))
    ELSE IF As(e, "ValidateError") > 0
    THEN [result |-> [Message |-> [text |-> e[As(e, "ValidateError")].info, values |-> <<>>]],
          ok |-> TRUE]
    ELSE [result |-> EmptyResult, ok |-> FALSE]

\* the resolver is given an error
ResolveInit ==
    /\ \E e \in ErrorChains : rs = [err |-> e, called |-> FALSE, result |-> EmptyResult, ok |-> FALSE]
    /\ r = Idle /\ cmd = Idle /\ host = Idle /\ fs = Idle
    /\ pc = "resolver" /\ err = "" /\ steps = <<>> /\ df = Idle

\* Resolve is called with it
ResolveCall ==
    /\ pc = "resolver"
    /\ ~rs.called
    /\ rs' = [rs EXCEPT !.called = TRUE,
                        !.result = Resolve(rs.err).result,
                        !.ok = Resolve(rs.err).ok]
    /\ UNCHANGED <<r, cmd, host, fs, pc, err, steps, df>>

ResolveNext == ResolveCall

SpecResolve == ResolveInit /\ [][ResolveNext]_vars

\* the error wraps an error of the type
Wraps(e, kind) == \E i \in DOMAIN e : e[i].kind = kind
\* the outermost KptfileError of the error, with its nested cause
OutermostKptfileError(e) ==
    ErrorAt(e, CHOOSE i \in DOMAIN e :
                  e[i].kind = "KptfileError" /\ \A j \in 1..(i - 1) : e[j].kind # "KptfileError")

\* C12: for an error that wraps a KptfileError, Resolve returns ok = true
\* and a message that cites the path of the Kptfile and is chosen by the
\* nested cause: not exist, deprecated version (with the version), unknown
\* resource type (with the GVK), or else "can't be read" with the details of
\* the nested error; for an error that wraps none of KptfileError,
\* RemoteKptfileError and ValidateError it returns ok = false and the empty
\* result.
C12_ResolveKptfileError ==
    rs.called =>
        /\ Wraps(rs.err, "KptfileError") =>
              LET k == OutermostKptfileError(rs.err)
                  m == rs.result.Message
              IN  /\ rs.ok
                  /\ m.values["path"] = k[1].info
                  /\ Wraps(k, "ErrNotExist") => m.text = noKptfileMsg.text
                  /\ Wraps(k, "DeprecatedKptfileError") =>
                        /\ m.text = deprecatedKptfileMsg.text
                        /\ \E i \in DOMAIN k : /\ k[i].kind = "DeprecatedKptfileError"
                                               /\ m.values["version"] = k[i].info
                  /\ Wraps(k, "UnknownKptfileResourceError") =>
                        /\ m.text = unknownKptfileResourceMsg.text
                        /\ \E i \in DOMAIN k : /\ k[i].kind = "UnknownKptfileResourceError"
                                               /\ m.values["gvk"] = k[i].info
                  /\ (/\ ~Wraps(k, "ErrNotExist")
                      /\ ~Wraps(k, "DeprecatedKptfileError")
                      /\ ~Wraps(k, "UnknownKptfileResourceError")) =>
                        /\ m.text = kptfileReadErrMsg.text
                        /\ m.values["err"] = k
        /\ (/\ ~Wraps(rs.err, "KptfileError")
            /\ ~Wraps(rs.err, "RemoteKptfileError")
            /\ ~Wraps(rs.err, "ValidateError")) =>
              (~rs.ok /\ rs.result = EmptyResult)

\* C12's case: a KptfileError under another error, with an unknown resource
\* type as its cause
C12_Witness ==
    /\ rs # Idle
    /\ rs.called
    /\ rs.ok
    /\ Len(rs.err) = 3
    /\ rs.err[1].kind = "Error"
    /\ rs.err[2].kind = "KptfileError"
    /\ rs.err[3].kind = "UnknownKptfileResourceError"
    /\ rs.result.Message.text = unknownKptfileResourceMsg.text

----------------------------------------------------------------------------
(* Saving again and again: SaveFnToKptfile on the Kptfile it left *)

\* most calls of SaveFnToKptfile in a row
MaxSaves == 2

\* runners as preRunE leaves them with --save: an image, an executable, or
\* both flags given
SaveRunners ==
    {[BaseRunner EXCEPT !.Image = fn[1], !.Exec = fn[2], !.SaveFn = TRUE] :
        fn \in {<<ImgFull, Empty>>, <<ImgOther, Empty>>, <<Empty, ExecF>>,
                <<Empty, ExecFx>>, <<ImgOther, ExecF>>}}

\* no two functions of the list have the same non-empty image or the same
\* non-empty exec
NoDuplicates(ms) ==
    \A i, j \in DOMAIN ms :
        i # j => /\ ~(ms[i].Image # Empty /\ ms[i].Image = ms[j].Image)
                 /\ ~(ms[i].Exec # Empty /\ ms[i].Exec = ms[j].Exec)

\* a call of SaveFnToKptfile: the runner, the Kptfile read, whether the file
\* could be written
SaveCallOf(rr, read, writable) ==
    [op |-> "SaveFnToKptfile", err |-> "", read |-> read, writable |-> writable,
     runner |-> rr]

\* a Kptfile without duplicates in the working directory
SaveInit ==
    /\ \E kf \in Kptfiles :
          /\ NoDuplicates(MutatorsOf(kf))
          /\ fs = BaseFs(kf, "absent")
    /\ host = Host(TRUE, TRUE, fs)
    /\ r = BaseRunner
    /\ cmd = Cmd(<<>>, <<>>, FALSE)
    /\ pc = "save"
    /\ err = ""
    /\ steps = <<>>
    /\ rs = Idle
    /\ df = Idle

\* one more call, with some runner
SaveCall ==
    /\ pc = "save"
    /\ Len(steps) < MaxSaves
    /\ \E rr \in SaveRunners, writeOK \in BOOLEAN :
          LET read == KptfileAt(fs, DestDir(rr.Dest)) IN
          /\ r' = rr
          /\ fs' = [fs EXCEPT !.kptfile =
                       [@ EXCEPT ![DestDir(rr.Dest)] = SaveFnToKptfile(rr, read, writeOK).kf]]
          /\ steps' = Append(steps, SaveCallOf(rr, read, writeOK))
    /\ UNCHANGED <<cmd, host, pc, err, rs, df>>

SaveNext == SaveCall

SpecSave == SaveInit /\ [][SaveNext]_vars

\* list p is the beginning of list q
IsPrefix(p, q) == Len(p) <= Len(q) /\ SubSeq(q, 1, Len(p)) = p

\* the validators of a Kptfile
ValidatorsOf(kf) ==
    IF kf = NoKptfile \/ kf.Pipeline = Nil THEN <<>> ELSE kf.Pipeline.Validators

\* C18: SaveFnToKptfile called again with the same runner leaves the Kptfile
\* as the first call left it; after any sequence of saves on a Kptfile
\* without duplicates the mutators hold no two entries with the same
\* non-empty image or exec, the mutators that were there come first in their
\* order, and the validators are as they were.
C18_SaveIdempotent ==
    LET kf == KptfileAt(fs, ".") IN
    pc = "save" =>
        /\ \A rr \in SaveRunners, w \in BOOLEAN :
              LET first == SaveFnToKptfile(rr, kf, TRUE).kf IN
              SaveFnToKptfile(rr, first, w).kf = first
        /\ \A i \in DOMAIN steps :
              (i > 1 /\ steps[i].runner = steps[i - 1].runner /\ steps[i - 1].writable)
                  => (IF i < Len(steps) THEN steps[i + 1].read ELSE kf) = steps[i].read
        /\ NoDuplicates(MutatorsOf(kf))
        /\ IsPrefix(MutatorsOf(host.fs0.kptfile["."]), MutatorsOf(kf))
        /\ ValidatorsOf(kf) = ValidatorsOf(host.fs0.kptfile["."])

\* C18's case: the first call added the function to mutators that held
\* another one, the second call with the same runner changed nothing
C18_Witness ==
    /\ pc = "save"
    /\ Len(steps) = 2
    /\ steps[1].runner = steps[2].runner
    /\ steps[1].writable /\ steps[2].writable
    /\ Len(MutatorsOf(steps[1].read)) = 1
    /\ Len(MutatorsOf(steps[2].read)) = 2
    /\ KptfileAt(fs, ".") = steps[2].read

----------------------------------------------------------------------------
(* The diff command: Command.Run and defaultPkgDiffer *)

\* the diff types (lines 39-48) and one that is none of them
DiffTypeLocal == "local"
DiffTypeRemote == "remote"
DiffTypeCombined == "combined"
DiffType3Way == "3way"
DiffTypes == {DiffTypeLocal, DiffTypeRemote, DiffTypeCombined, DiffType3Way, "sideways"}

\* the sources of the packages compared (lines 51-58), as Go strings
localPackageSource == <<"l", "o", "c", "a", "l">>
remotePackageSource == <<"r", "e", "m", "o", "t", "e">>
targetRemotePackageSource == <<"t", "a", "r", "g", "e", "t">>

\* errors of the diff command: nil, the *exec.ExitError of a diff tool that
\* exited with a code, and every other error by its text
NoError == [type |-> "nil", code |-> 0]
ExitError(code) == [type |-> "ExitError", code |-> code]
Errorf(text) == [type |-> text, code |-> 0]

\* shortSha: at most the first 7 characters
ShortShaLen == 7
shortSha(sha) == SubSeq(sha, 1, IF Len(sha) < ShortShaLen THEN Len(sha) ELSE ShortShaLen)

\* the part of a Go string after its last "/"
AfterLastSlash(s) == SubSeq(s, LastIndexFrom(s, "/", Len(s)) + 1, Len(s))

\* NameStagingDirectory (lines 359-381)
NameStagingDirectory(source, branch, sha) ==
    LET reducedBranch == AfterLastSlash(branch)
        reducedSha == AfterLastSlash(sha)
    IN  IF reducedBranch = reducedSha
        THEN source \o <<"-">> \o reducedBranch
        ELSE source \o <<"-">> \o reducedBranch \o <<"-">> \o shortSha(reducedSha)

\* A directory is what it holds: where its files come from (the local
\* package, or upstream at a revision) and whether it has a Kptfile and a
\* .git directory.  The filesystem of the diff command is the local package
\* at c.Path and the staging directory: absent, or its subdirectories by name.
Dir(origin, rev, hasKptfile, hasGit) ==
    [origin |-> origin, rev |-> rev, Kptfile |-> hasKptfile, git |-> hasGit]
EmptyDir == Dir("", <<>>, FALSE, FALSE)
NoStaging == [absent |-> TRUE]
EmptyStaging == [dirs |-> <<>>]

\* paths: c.Path, and filepath.Join(stagingDirectory, name)
LocalPath == <<"pkg">>
Staged(name) == <<"stage", name>>
IsStaged(path) == Len(path) = 2 /\ path[1] = "stage"

\* the directory at a path, EmptyDir when there is none
DirAt(fsys, path) ==
    IF path = LocalPath THEN fsys.local
    ELSE IF IsStaged(path) /\ fsys.staging # NoStaging /\ path[2] \in DOMAIN fsys.staging.dirs
    THEN fsys.staging.dirs[path[2]]
    ELSE EmptyDir

\* the filesystem with directory d at the path
PutDir(fsys, path, d) ==
    IF path = LocalPath THEN [fsys EXCEPT !.local = d]
    ELSE IF IsStaged(path) /\ fsys.staging # NoStaging
    THEN [fsys EXCEPT !.staging = [dirs |-> (path[2] :> d) @@ fsys.staging.dirs]]
    ELSE fsys

\* prepareForDiff (lines 304-315) when os.RemoveAll succeeds: .git and the
\* Kptfile of the directory are removed
prepareForDiff(fsys, dir) ==
    IF DirAt(fsys, dir) = EmptyDir THEN fsys
    ELSE PutDir(fsys, dir, [DirAt(fsys, dir) EXCEPT !.Kptfile = FALSE, !.git = FALSE])

\* the loop of Diff over pkgs from position i on (lines 269-273); failAt is
\* the position of the package for which os.RemoveAll fails, 0 for none
RECURSIVE PrepareAll(_, _, _, _)
PrepareAll(fsys, pkgs, i, failAt) ==
    IF i > Len(pkgs) THEN [fsys |-> fsys, err |-> NoError]
    ELSE IF i = failAt THEN [fsys |-> fsys, err |-> Errorf("remove failed")]
    ELSE PrepareAll(prepareForDiff(fsys, pkgs[i]), pkgs, i + 1, failAt)

\* what running the diff tool can come to: it exits with a code (-1 when a
\* signal ended it), or it cannot be started
ToolOutcomes == {ExitError(c) : c \in {0, 1, 2, -1}} \cup {Errorf("exec: not started")}

\* cmd.Run(): nil when the tool exits with 0, else the error
CmdRun(outcome) ==
    IF outcome.type = "ExitError" /\ outcome.code = 0 THEN NoError ELSE outcome

\* a variant of SuppressDifferences that suppresses nothing
SuppressNothing(e) == e

\* lines 289-300: the exit code 1, directories differ, is no error
SuppressDifferences(e) ==
    IF e # NoError /\ e.type = "ExitError" /\ e.code = 1 THEN NoError ELSE e

\* defaultPkgDiffer.Diff (lines 268-302): the filesystem it leaves, the
\* error it returns, and the runs of the diff tool with their arguments
Diff(opts, pkgs, fsys, failAt, outcome) ==
    LET prep == PrepareAll(fsys, pkgs, 1, failAt)
        args == IF opts # <<>> THEN opts \o pkgs ELSE pkgs
    IN  IF prep.err # NoError
        THEN [fsys |-> prep.fsys, err |-> prep.err, runs |-> <<>>]
        ELSE [fsys |-> prep.fsys, err |-> SuppressDifferences(CmdRun(outcome)),
              runs |-> <<args>>]

\* stageDirectory (lines 350-357): os.Mkdir fails when the directory is
\* there already, and may fail otherwise
stageDirectory(fsys, subpath, mkdirOK) ==
    IF ~mkdirOK \/ DirAt(fsys, Staged(subpath)) # EmptyDir \/ fsys.staging = NoStaging
    THEN [fsys |-> fsys, path |-> Staged(subpath), err |-> Errorf("mkdir failed")]
    ELSE [fsys |-> PutDir(fsys, Staged(subpath), Dir("new", <<>>, FALSE, FALSE)),
          path |-> Staged(subpath), err |-> NoError]

\* defaultPkgGetter.GetPkg (lines 330-342): the directory is staged and
\* get.Command fetches the package at the ref into it
GetPkg(fsys, targetDir, ref, mkdirOK, getOK) ==
    LET st == stageDirectory(fsys, targetDir, mkdirOK) IN
    IF st.err # NoError THEN [fsys |-> st.fsys, dir |-> st.path, err |-> st.err]
    ELSE IF ~getOK THEN [fsys |-> st.fsys, dir |-> st.path, err |-> Errorf("get failed")]
    ELSE [fsys |-> PutDir(st.fsys, st.path, Dir("upstream", ref, TRUE, FALSE)),
          dir |-> st.path, err |-> NoError]

\* copyutil.CopyDir of the local package into a directory
CopyDir(fsys, src, dst) ==
    PutDir(fsys, dst, [DirAt(fsys, src) EXCEPT !.origin = "local"])

\* lines 173-175: the diff types that need upstream at the target ref
NeedsTarget(diffType) ==
    diffType = DiffTypeRemote \/ diffType = DiffTypeCombined \/ diffType = DiffType3Way

\* a variant of DiffPackages that compares the local package where it is
DiffPackagesInPlace(diffType, currPkg, upstreamPkg, upstreamTargetPkg) ==
    CASE diffType = DiffTypeLocal -> Slice(<<LocalPath, upstreamPkg>>)
      [] diffType = DiffTypeRemote -> Slice(<<upstreamPkg, upstreamTargetPkg>>)
      [] diffType = DiffTypeCombined -> Slice(<<LocalPath, upstreamTargetPkg>>)
      [] diffType = DiffType3Way -> Slice(<<LocalPath, upstreamPkg, upstreamTargetPkg>>)
      [] OTHER -> Nil

\* a variant of DiffPackages that takes combined for local
DiffPackagesCombinedAsLocal(diffType, currPkg, upstreamPkg, upstreamTargetPkg) ==
    CASE diffType = DiffTypeLocal -> Slice(<<currPkg, upstreamPkg>>)
      [] diffType = DiffTypeRemote -> Slice(<<upstreamPkg, upstreamTargetPkg>>)
      [] diffType = DiffTypeCombined -> Slice(<<currPkg, upstreamPkg>>)
      [] diffType = DiffType3Way -> Slice(<<currPkg, upstreamPkg, upstreamTargetPkg>>)
      [] OTHER -> Nil

\* lines 194-206: the packages given to the differ, Nil for a diff type the
\* switch does not know
DiffPackages(diffType, currPkg, upstreamPkg, upstreamTargetPkg) ==
    CASE diffType = DiffTypeLocal -> Slice(<<currPkg, upstreamPkg>>)
      [] diffType = DiffTypeRemote -> Slice(<<upstreamPkg, upstreamTargetPkg>>)
      [] diffType = DiffTypeCombined -> Slice(<<currPkg, upstreamTargetPkg>>)
      [] diffType = DiffType3Way -> Slice(<<currPkg, upstreamPkg, upstreamTargetPkg>>)
      [] OTHER -> Nil

\* a variant of CleanupWanted that always keeps the staging directory
CleanupNever(debug) == FALSE

\* lines 129-134: the deferred function removes the staging directory
\* unless debugging
CleanupWanted(debug) == ~debug

\* refs and commits of the model, as Go strings: "main", "refs/tags/v1",
\* "v2", and a commit of ten characters
RefMain == <<"m", "a", "i", "n">>
RefTag == <<"r", "e", "f", "s", "/", "t", "a", "g", "s", "/", "v", "1">>
RefV2 == <<"v", "2">>
CommitSha == <<"0", "1", "2", "3", "4", "5", "6", "7", "8", "9">>

\* kptFile.Upstream.Git of the Kptfiles of the model: fetched at a branch,
\* and fetched at a tag, where ref and commit are the same
Upstreams ==
    {[Repo |-> "repo", Directory |-> "/", Ref |-> RefMain, Commit |-> CommitSha],
     [Repo |-> "repo", Directory |-> "/", Ref |-> RefTag, Commit |-> RefTag]}

\* the diff command before Run: its fields, the local package with its
\* Kptfile, no staging directory
DiffInit ==
    /\ \E diffType \in DiffTypes, ref \in {Empty, RefV2}, debug \in BOOLEAN,
          up \in Upstreams, hasKptfile \in BOOLEAN, hasGit \in BOOLEAN :
          df = [Path |-> LocalPath, Ref |-> ref, DiffType |-> diffType, Debug |-> debug,
                Upstream |-> up,
                fsys |-> [local |-> Dir("local", <<>>, hasKptfile, hasGit),
                          staging |-> NoStaging],
                local0 |-> Dir("local", <<>>, hasKptfile, hasGit),
                currPkg |-> <<>>, upstreamPkg |-> <<>>, upstreamTargetPkg |-> <<>>,
                getCalls |-> <<>>, diffCalls |-> <<>>, runs |-> <<>>,
                created |-> FALSE, atReturn |-> NoStaging,
                pc |-> "ReadFile", err |-> NoError]
    /\ r = Idle /\ cmd = Idle /\ host = Idle /\ fs = Idle
    /\ pc = "diff" /\ err = "" /\ steps = <<>> /\ rs = Idle

\* Run returns e: before the deferred function is registered it is over,
\* afterwards the deferred function runs first
ReturnEarly(e) == [df EXCEPT !.pc = "returned", !.err = e]
Return(d, e) == [d EXCEPT !.pc = "deferred", !.err = e, !.atReturn = d.fsys.staging]

\* lines 119-122: the Kptfile of the local package is read
DiffReadFile ==
    /\ pc = "diff" /\ df.pc = "ReadFile"
    /\ df' = IF df.fsys.local.Kptfile
             THEN [df EXCEPT !.pc = "TempDir"]
             ELSE ReturnEarly(Errorf("package missing Kptfile"))
    /\ UNCHANGED <<r, cmd, host, fs, pc, err, steps, rs>>

\* lines 124-128: the staging directory is created
DiffTempDir ==
    /\ pc = "diff" /\ df.pc = "TempDir"
    /\ \E ok \in BOOLEAN :
          df' = IF ok
                THEN [df EXCEPT !.pc = "StageLocal", !.created = TRUE,
                                !.fsys.staging = EmptyStaging]
                ELSE ReturnEarly(Errorf("failed to create stage dir"))
    /\ UNCHANGED <<r, cmd, host, fs, pc, err, steps, rs>>

\* lines 136-149: the local package is copied into the staging directory
DiffStageLocal ==
    /\ pc = "diff" /\ df.pc = "StageLocal"
    /\ \E mkdirOK \in BOOLEAN, copyOK \in BOOLEAN :
          LET localPkgName == NameStagingDirectory(localPackageSource,
                                  df.Upstream.Ref, df.Upstream.Commit)
              st == stageDirectory(df.fsys, localPkgName, mkdirOK)
              d1 == [df EXCEPT !.fsys = st.fsys]
              d2 == [d1 EXCEPT !.currPkg = st.path]
          IN  df' = IF st.err # NoError
                    THEN Return(d1, Errorf("failed to create stage dir for current package"))
                    ELSE IF ~copyOK
                    THEN Return(d2, Errorf("failed to stage current package"))
                    ELSE [d2 EXCEPT !.fsys = CopyDir(st.fsys, df.Path, st.path),
                                    !.pc = "GetUpstream"]
    /\ UNCHANGED <<r, cmd, host, fs, pc, err, steps, rs>>

\* lines 151-162: upstream at the commit of the Kptfile is fetched
DiffGetUpstream ==
    /\ pc = "diff" /\ df.pc = "GetUpstream"
    /\ \E mkdirOK \in BOOLEAN, getOK \in BOOLEAN :
          LET upstreamPkgName == NameStagingDirectory(remotePackageSource,
                                     df.Upstream.Ref, df.Upstream.Commit)
              g == GetPkg(df.fsys, upstreamPkgName, df.Upstream.Commit, mkdirOK, getOK)
              d1 == [df EXCEPT !.fsys = g.fsys, !.upstreamPkg = g.dir,
                               !.getCalls = Append(@, [targetDir |-> upstreamPkgName,
                                                       ref |-> df.Upstream.Commit])]
          IN  df' = IF g.err # NoError THEN Return(d1, g.err)
                    ELSE [d1 EXCEPT !.pc = "DefaultRef"]
    /\ UNCHANGED <<r, cmd, host, fs, pc, err, steps, rs>>

\* lines 166-171: without a target ref the default ref of the repository is
\* taken
DiffDefaultRef ==
    /\ pc = "diff" /\ df.pc = "DefaultRef"
    /\ \E ok \in BOOLEAN :
          df' = IF df.Ref # Empty THEN [df EXCEPT !.pc = "GetTarget"]
                ELSE IF ~ok THEN Return(df, Errorf("no default ref"))
                ELSE [df EXCEPT !.Ref = RefMain, !.pc = "GetTarget"]
    /\ UNCHANGED <<r, cmd, host, fs, pc, err, steps, rs>>

\* lines 173-187: upstream at the target ref is fetched for the diff types
\* that compare with it
DiffGetTarget ==
    /\ pc = "diff" /\ df.pc = "GetTarget"
    /\ \E mkdirOK \in BOOLEAN, getOK \in BOOLEAN :
          LET upstreamTargetPkgName == NameStagingDirectory(targetRemotePackageSource,
                                           df.Ref, df.Ref)
              g == GetPkg(df.fsys, upstreamTargetPkgName, df.Ref, mkdirOK, getOK)
              d1 == [df EXCEPT !.fsys = g.fsys, !.upstreamTargetPkg = g.dir,
                               !.getCalls = Append(@, [targetDir |-> upstreamTargetPkgName,
                                                       ref |-> df.Ref])]
          IN  df' = IF ~NeedsTarget(df.DiffType) THEN [df EXCEPT !.pc = "Switch"]
                    ELSE IF g.err # NoError THEN Return(d1, g.err)
                    ELSE [d1 EXCEPT !.pc = "Switch"]
    /\ UNCHANGED <<r, cmd, host, fs, pc, err, steps, rs>>

\* a call of the differ: the packages it is given, what they hold then, and
\* what happens in the call: the package whose preparation fails (0 for
\* none) and what running the diff tool would come to
DiffCallOf(pkgs, fsys, failAt, outcome) ==
    [pkgs |-> pkgs, holds |-> [i \in DOMAIN pkgs |-> DirAt(fsys, pkgs[i])],
     failAt |-> failAt, outcome |-> outcome]

\* lines 194-206: the differ is called with the packages of the diff type
DiffSwitch ==
    /\ pc = "diff" /\ df.pc = "Switch"
    /\ \E failAt \in 0..3, outcome \in ToolOutcomes :
          LET sel == DiffPackages(df.DiffType, df.currPkg, df.upstreamPkg,
                                  df.upstreamTargetPkg)
              res == Diff(<<>>, sel.list, df.fsys, failAt, outcome)
          IN  df' = IF sel = Nil THEN Return(df, Errorf("unsupported diff type"))
                    ELSE Return([df EXCEPT !.fsys = res.fsys,
                                           !.diffCalls = Append(@, DiffCallOf(sel.list, df.fsys, failAt, outcome)),
                                           !.runs = @ \o res.runs],
                                res.err)
    /\ UNCHANGED <<r, cmd, host, fs, pc, err, steps, rs>>

\* lines 129-134: the deferred function
DiffDeferred ==
    /\ pc = "diff" /\ df.pc = "deferred"
    /\ df' = [df EXCEPT !.pc = "returned",
                        !.fsys.staging = IF CleanupWanted(df.Debug) THEN NoStaging ELSE @]
    /\ UNCHANGED <<r, cmd, host, fs, pc, err, steps, rs>>

DiffNext ==
    \/ DiffReadFile
    \/ DiffTempDir
    \/ DiffStageLocal
    \/ DiffGetUpstream
    \/ DiffDefaultRef
    \/ DiffGetTarget
    \/ DiffSwitch
    \/ DiffDeferred

SpecDiff == DiffInit /\ [][DiffNext]_vars

\* Run has returned, or has only its deferred function left to run
DiffReturning == pc = "diff" /\ df.pc \in {"deferred", "returned"}

\* the errors Run returns before it comes to the switch over the diff type
BeforeSwitchErrors ==
    {Errorf("package missing Kptfile"), Errorf("failed to create stage dir"),
     Errorf("failed to create stage dir for current package"),
     Errorf("failed to stage current package"), Errorf("mkdir failed"),
     Errorf("get failed"), Errorf("no default ref")}

\* what the packages given to the differ are: the staged copy of the local
\* package, upstream at a revision
IsLocalCopy(d) == d.origin = "local" /\ d.Kptfile = df.local0.Kptfile /\ d.git = df.local0.git
IsUpstreamAt(d, rev) == d.origin = "upstream" /\ d.rev = rev

\* C16: Run calls the differ once, after the packages are staged, with the
\* packages of the diff type: local - staged local copy and upstream at the
\* commit of the Kptfile; remote - upstream at the commit and upstream at the
\* target ref; combined - staged local copy and upstream at the target ref;
\* 3way - all three; for another diff type it returns "unsupported diff
\* type" and does not call the differ; upstream at the target ref is fetched
\* only for remote, combined and 3way.
C16_DifferCalledByDiffType ==
    pc = "diff" =>
        /\ Len(df.diffCalls) <= 1
        /\ (DiffReturning /\ df.err \in BeforeSwitchErrors) => df.diffCalls = <<>>
        /\ (DiffReturning /\ df.err \notin BeforeSwitchErrors) =>
              IF df.DiffType \in {DiffTypeLocal, DiffTypeRemote, DiffTypeCombined, DiffType3Way}
              THEN /\ Len(df.diffCalls) = 1
                   /\ \A i \in DOMAIN df.diffCalls[1].pkgs : IsStaged(df.diffCalls[1].pkgs[i])
                   /\ LET h == df.diffCalls[1].holds IN
                      CASE df.DiffType = DiffTypeLocal ->
                               /\ Len(h) = 2
                               /\ IsLocalCopy(h[1])
                               /\ IsUpstreamAt(h[2], df.Upstream.Commit)
                        [] df.DiffType = DiffTypeRemote ->
                               /\ Len(h) = 2
                               /\ IsUpstreamAt(h[1], df.Upstream.Commit)
                               /\ IsUpstreamAt(h[2], df.Ref)
                        [] df.DiffType = DiffTypeCombined ->
                               /\ Len(h) = 2
                               /\ IsLocalCopy(h[1])
                               /\ IsUpstreamAt(h[2], df.Ref)
                        [] df.DiffType = DiffType3Way ->
                               /\ Len(h) = 3
                               /\ IsLocalCopy(h[1])
                               /\ IsUpstreamAt(h[2], df.Upstream.Commit)
                               /\ IsUpstreamAt(h[3], df.Ref)
              ELSE /\ df.diffCalls = <<>>
                   /\ df.err = Errorf("unsupported diff type")
        /\ Len(df.getCalls) <= 2
        /\ Len(df.getCalls) >= 1 => df.getCalls[1].ref = df.Upstream.Commit
        /\ Len(df.getCalls) = 2 =>
              /\ df.DiffType \in {DiffTypeRemote, DiffTypeCombined, DiffType3Way}
              /\ df.getCalls[2].ref = df.Ref
        /\ (DiffReturning /\ df.err \notin BeforeSwitchErrors) =>
              (Len(df.getCalls) = 2
                   <=> df.DiffType \in {DiffTypeRemote, DiffTypeCombined, DiffType3Way})

\* C16's case: a combined diff without a target ref given, ended without error
C16_Witness ==
    /\ pc = "diff"
    /\ df.pc = "returned"
    /\ df.DiffType = DiffTypeCombined
    /\ df.err = NoError
    /\ df.Ref = RefMain
    /\ Len(df.diffCalls) = 1
    /\ Len(df.runs) = 1

\* C17: Run never changes the local package: what c.Path holds stays as it
\* was, and the packages given to the differ, from which prepareForDiff
\* removes .git and the Kptfile, are directories created in the staging
\* directory.
C17_LocalPackageUnchanged ==
    pc = "diff" =>
        /\ df.fsys.local = df.local0
        /\ \A k \in DOMAIN df.diffCalls :
              \A i \in DOMAIN df.diffCalls[k].pkgs :
                  /\ df.diffCalls[k].pkgs[i] # df.Path
                  /\ IsStaged(df.diffCalls[k].pkgs[i])
                  /\ df.diffCalls[k].holds[i] # EmptyDir

\* C17's case: the staged copy has lost its Kptfile and .git, the local
\* package has both
C17_Witness ==
    /\ pc = "diff"
    /\ df.pc = "returned"
    /\ df.Debug
    /\ Len(df.diffCalls) = 1
    /\ df.fsys.local.Kptfile /\ df.fsys.local.git
    /\ DirAt(df.fsys, df.currPkg).origin = "local"
    /\ ~DirAt(df.fsys, df.currPkg).Kptfile
    /\ ~DirAt(df.fsys, df.currPkg).git

\* the diff tool exits with code 0 or 1
ExitsZeroOrOne(outcome) == outcome.type = "ExitError" /\ outcome.code \in {0, 1}

\* C19: Diff returns nil exactly when the diff tool exits with code 0 or 1;
\* for another exit code, or when the tool cannot be started, it returns
\* the error; when preparing a package fails it returns the error and does
\* not run the tool.
C19_DiffErrorByExitCode ==
    (DiffReturning /\ Len(df.diffCalls) = 1) =>
        LET call == df.diffCalls[1]
            prepareFails == call.failAt \in DOMAIN call.pkgs
        IN  /\ (df.err = NoError) <=> (~prepareFails /\ ExitsZeroOrOne(call.outcome))
            /\ prepareFails => (df.err # NoError /\ df.runs = <<>>)
            /\ ~prepareFails => df.runs = <<call.pkgs>>
            /\ (~prepareFails /\ ~ExitsZeroOrOne(call.outcome)) => df.err = call.outcome

\* C19's case: the tool found differences and Diff returned nil
C19_Witness ==
    /\ pc = "diff"
    /\ df.pc = "returned"
    /\ Len(df.diffCalls) = 1
    /\ df.diffCalls[1].failAt = 0
    /\ df.diffCalls[1].outcome = ExitError(1)
    /\ df.err = NoError

====
